---- MODULE Spec2Model ----
(***************************************************************************)
(* Model of main.py: the time/weather MCP server.                          *)
(*                                                                         *)
(* The dispatch core is stream_generator (one request body in, response    *)
(* lines out), reached over HTTP through handle_stream; the tools are      *)
(* list_tools, call_tool, time_tool and weather_tool.  main() starts       *)
(* either the HTTP server (one asyncio event loop) or the stdio session.   *)
(*                                                                         *)
(* JSON values are records tagged by t.  A mapping carries every key the   *)
(* code reads; a key that is not in the mapping holds Absent.  Texts are   *)
(* sequences of string pieces, one piece per literal or interpolated       *)
(* value of the f-string that builds them.                                 *)
(***************************************************************************)
EXTENDS Integers, Sequences, FiniteSets, TLC

\* Total number of HTTP requests accepted over a run.
MaxRequests == 3
\* Total number of tool calls served by the stdio session over a run.
MaxStdioCalls == 2

\* JSON-RPC error codes the code writes.
PARSE_ERROR == -32700
METHOD_NOT_FOUND == -32601
SERVER_ERROR == -32000

\* The connections (handling tasks) that may be in flight at once.
Conns == {"c1", "c2"}
NoTask == "none"

----------------------------------------------------------------------------
\* JSON values

Absent == [t |-> "absent", v |-> ""]
JNull == [t |-> "null", v |-> ""]
JNum(n) == [t |-> "num", v |-> n]
JStr(s) == [t |-> "str", v |-> s]
JList == [t |-> "list", v |-> "[]"]

Args(tz, loc) == [t |-> "map", input_timezone |-> tz, location |-> loc]
Params(name, arguments) == [t |-> "map", name |-> name, arguments |-> arguments]
Message(id, method, params) == [t |-> "map", id |-> id, method |-> method, params |-> params]

EmptyDict == [t |-> "map", name |-> Absent, arguments |-> Absent,
              input_timezone |-> Absent, location |-> Absent]

IsMapping(x) == x.t = "map"

\* dict.get(key): None when the key is missing.  Python's None is JSON null.
Get(m, key) == IF key \in DOMAIN m /\ m[key] # Absent THEN m[key] ELSE JNull

\* dict.get(key, default)
GetDefault(m, key, default) == IF key \in DOMAIN m /\ m[key] # Absent THEN m[key] ELSE default

\* Python truthiness of a decoded JSON value
Truthy(x) ==
    CASE x.t = "null" -> FALSE
      [] x.t = "absent" -> FALSE
      [] x.t = "str" -> x.v # ""
      [] x.t = "num" -> x.v # "0"
      [] x.t = "list" -> FALSE
      [] OTHER -> TRUE

\* str(x) / f"{x}" of a decoded JSON value
PyStr(x) ==
    CASE x.t = "null" -> "None"
      [] x.t = "absent" -> "None"
      [] x.t = "str" -> x.v
      [] x.t = "num" -> x.v
      [] x.t = "list" -> "[]"
      [] OTHER -> "{...}"

\* type(x).__name__, as it appears in an AttributeError
PyType(x) ==
    CASE x.t = "null" -> "NoneType"
      [] x.t = "str" -> "str"
      [] x.t = "num" -> "int"
      [] x.t = "list" -> "list"
      [] OTHER -> "dict"

\* str(e) of the AttributeError raised by x.get on a value that is no dict
NoGetAttr(x) == <<"'", PyType(x), "' object has no attribute 'get'">>

----------------------------------------------------------------------------
\* Outcomes of a call: a returned value or a raised exception

Return(value) == [raised |-> FALSE, value |-> value, text |-> <<>>]
Raise(text) == [raised |-> TRUE, value |-> Absent, text |-> text]

\* types.TextContent(type="text", text=...)
TextContent(text) == [class |-> "TextContent", type |-> "text", text |-> text]

----------------------------------------------------------------------------
\* Response envelopes (the dict that json.dumps writes as one line)

ResultEnvelope(id, result) ==
    [jsonrpc |-> "2.0", id |-> id, result |-> result, error |-> Absent]
ErrorEnvelope(id, code, message) ==
    [jsonrpc |-> "2.0", id |-> id, result |-> Absent,
     error |-> [code |-> code, message |-> message]]

IsEnvelope(line) == "jsonrpc" \in DOMAIN line
IsError(line) == IsEnvelope(line) /\ line.error # Absent
IsResult(line) == IsEnvelope(line) /\ line.error = Absent

\* A line that print() writes
TextLine(text) == [print |-> text]

----------------------------------------------------------------------------
\* The tools

ToolNames == {"time_tool", "weather_tool"}

\* list_tools with the two tools in the other order
list_tools_reversed ==
    << [class |-> "Tool",
        name |-> "weather_tool",
        description |-> "Provides weather info for a given location",
        inputSchema |-> [type |-> "object",
                         properties |-> {"location"},
                         required |-> {"location"},
                         additionalProperties |-> FALSE]],
       [class |-> "Tool",
        name |-> "time_tool",
        description |-> "Get current time for a timezone (e.g. Asia/Kolkata)",
        inputSchema |-> [type |-> "object",
                         properties |-> {"input_timezone"},
                         required |-> {},
                         additionalProperties |-> FALSE]] >>

\* list_tools(): the two types.Tool objects, built anew by every call
list_tools ==
    << [class |-> "Tool",
        name |-> "time_tool",
        description |-> "Get current time for a timezone (e.g. Asia/Kolkata)",
        inputSchema |-> [type |-> "object",
                         properties |-> {"input_timezone"},
                         required |-> {},
                         additionalProperties |-> FALSE]],
       [class |-> "Tool",
        name |-> "weather_tool",
        description |-> "Provides weather info for a given location",
        inputSchema |-> [type |-> "object",
                         properties |-> {"location"},
                         required |-> {"location"},
                         additionalProperties |-> FALSE]] >>

\* Zone keys the tz database of the model knows
ZoneKeys == {"Asia/Kolkata"}

\* ZoneInfo(key): raises for a key that names no zone
ZoneInfo(key) ==
    IF key.t = "str" /\ key.v \in ZoneKeys
    THEN Return(key.v)
    ELSE Raise(<<"No time zone found with key ", PyStr(key)>>)

\* time_tool without the inner try: an invalid zone key escapes the tool
time_tool_unguarded(input_timezone) ==
    IF Truthy(input_timezone)
    THEN LET zone == ZoneInfo(input_timezone) IN
         IF zone.raised
         THEN Raise(zone.text)
         ELSE Return(<<TextContent(<<"The current time is ", "<now>", " ", zone.value, ".">>)>>)
    ELSE Return(<<TextContent(<<"The current time is ", "<now>", " ", "", ".">>)>>)

\* time_tool(input_timezone): never raises
time_tool(input_timezone) ==
    IF Truthy(input_timezone)
    THEN LET zone == ZoneInfo(input_timezone) IN
         IF zone.raised
         THEN Return(<<TextContent(<<"Invalid timezone '", PyStr(input_timezone),
                                     "'. Error: ">> \o zone.text)>>)
         ELSE Return(<<TextContent(<<"The current time is ", "<now>", " ", zone.value, ".">>)>>)
    ELSE Return(<<TextContent(<<"The current time is ", "<now>", " ", "", ".">>)>>)

\* The values os.getenv("WEATHER_API_KEY") may give: unset, or a key
ApiKeys == {JNull, JStr("KEY")}

\* What the outbound GET and the reading of its answer may come to
NetOutcomes == {"ok", "request_exception", "no_current", "bad_shape"}

WeatherUrl(api_key, location) ==
    <<"http://api.weatherapi.com/v1/current.json?key=", PyStr(api_key),
      "&q=", PyStr(location), "&aqi=no">>

\* weather_tool up to the call of requests.get: either it has returned, or it
\* has printed the url and is about to make the blocking call
weather_tool_begin(location, api_key) ==
    IF ~Truthy(location)
    THEN [blocking |-> FALSE, printed |-> <<>>,
          outcome |-> Return(<<TextContent(<<"Location parameter is required.">>)>>)]
    ELSE IF ~Truthy(api_key)
    THEN [blocking |-> FALSE, printed |-> <<>>,
          outcome |-> Return(<<TextContent(
              <<"Weather API key not found. Please set WEATHER_API_KEY environment variable.">>)>>)]
    ELSE [blocking |-> TRUE, printed |-> <<TextLine(WeatherUrl(api_key, location))>>,
          outcome |-> Return(<<>>)]

\* weather_tool from the return of requests.get on: never raises
weather_tool_finish(location, net) ==
    CASE net = "request_exception" ->
           Return(<<TextContent(<<"Error fetching weather data: ", "<RequestException>">>)>>)
      [] net = "no_current" ->
           Return(<<TextContent(<<"Sorry, couldn't find weather for ", PyStr(location), ".">>)>>)
      [] net = "bad_shape" ->
           Return(<<TextContent(<<"Error getting weather: ", "<KeyError>">>)>>)
      [] OTHER ->
           Return(<<TextContent(<<"The weather in ", PyStr(location), " is ", "<condition>",
                                  " at ", "<temp_c>", "C.">>)>>)

\* call_tool that falls through to the last tool instead of raising
call_tool_fallthrough(name, arguments, api_key) ==
    IF name = JStr("time_tool")
    THEN IF ~IsMapping(arguments)
         THEN [blocking |-> FALSE, printed |-> <<>>, calls |-> {"call_tool"},
               outcome |-> Raise(NoGetAttr(arguments))]
         ELSE [blocking |-> FALSE, printed |-> <<>>, calls |-> {"call_tool", "time_tool"},
               outcome |-> time_tool(Get(arguments, "input_timezone"))]
    ELSE IF ~IsMapping(arguments)
         THEN [blocking |-> FALSE, printed |-> <<>>, calls |-> {"call_tool"},
               outcome |-> Raise(NoGetAttr(arguments))]
         ELSE LET w == weather_tool_begin(Get(arguments, "location"), api_key) IN
              [blocking |-> w.blocking, printed |-> w.printed,
               calls |-> {"call_tool", "weather_tool"} \cup
                         (IF w.blocking THEN {"requests.get"} ELSE {}),
               outcome |-> w.outcome]

\* call_tool(name, arguments), up to its return or to the blocking call
call_tool(name, arguments, api_key) ==
    IF name = JStr("time_tool")
    THEN IF ~IsMapping(arguments)
         THEN [blocking |-> FALSE, printed |-> <<>>, calls |-> {"call_tool"},
               outcome |-> Raise(NoGetAttr(arguments))]
         ELSE [blocking |-> FALSE, printed |-> <<>>, calls |-> {"call_tool", "time_tool"},
               outcome |-> time_tool(Get(arguments, "input_timezone"))]
    ELSE IF name = JStr("weather_tool")
    THEN IF ~IsMapping(arguments)
         THEN [blocking |-> FALSE, printed |-> <<>>, calls |-> {"call_tool"},
               outcome |-> Raise(NoGetAttr(arguments))]
         ELSE LET w == weather_tool_begin(Get(arguments, "location"), api_key) IN
              [blocking |-> w.blocking, printed |-> w.printed,
               calls |-> {"call_tool", "weather_tool"} \cup
                         (IF w.blocking THEN {"requests.get"} ELSE {}),
               outcome |-> w.outcome]
    ELSE [blocking |-> FALSE, printed |-> <<>>, calls |-> {"call_tool"},
          outcome |-> Raise(<<"Unknown tool: ", PyStr(name)>>)]

----------------------------------------------------------------------------
\* The dispatch core: stream_generator

\* Request bodies: bytes that are no UTF-8, text that is no JSON, or JSON
BadUtf8 == [kind |-> "badutf8", msg |-> Absent]
BadJson == [kind |-> "badjson", msg |-> Absent]
Json(value) == [kind |-> "json", msg |-> value]
NoBody == [kind |-> "none", msg |-> Absent]

\* json.loads(request_body.decode())
json_loads(request_body) ==
    CASE request_body.kind = "badutf8" ->
           Raise(<<"'utf-8' codec can't decode byte 0xff in position 0: invalid start byte">>)
      [] request_body.kind = "badjson" ->
           Raise(<<"Expecting value: line 1 column 1 (char 0)">>)
      [] OTHER -> Return(request_body.msg)

\* The outer handler reporting the generic code instead of the parse error
ParseErrorLines_generic(text) ==
    <<ErrorEnvelope(JNull, SERVER_ERROR, text)>>

\* The outer handler: except Exception as e
ParseErrorLines(text) ==
    <<ErrorEnvelope(JNull, PARSE_ERROR, <<"Parse error: ">> \o text)>>

InitializeResult ==
    [protocolVersion |-> "2024-11-05",
     capabilities |-> [tools |-> EmptyDict],
     serverInfo |-> [name |-> "time-weather-mcp", version |-> "1.0.0"]]

\* The projection of the Tool objects to dicts
ToolsDict(tools) ==
    [i \in 1..Len(tools) |->
        [name |-> tools[i].name,
         description |-> tools[i].description,
         inputSchema |-> tools[i].inputSchema]]

\* The projection of the TextContent objects to dicts
ContentDicts(result) ==
    [i \in 1..Len(result) |-> [type |-> result[i].type, text |-> result[i].text]]

\* The unknown-method answer without the name of the method
MethodNotFoundLines_unnamed(id, method) ==
    <<ErrorEnvelope(id, METHOD_NOT_FOUND, <<"Method not found">>)>>

MethodNotFoundLines(id, method) ==
    <<ErrorEnvelope(id, METHOD_NOT_FOUND, <<"Method not found: ", PyStr(method)>>)>>

\* The inner try yielding its result line and then, as if the yield had
\* raised, the error line of its handler as well
ToolCallLines_twice(id, outcome) ==
    IF outcome.raised
    THEN <<ErrorEnvelope(id, SERVER_ERROR, outcome.text)>>
    ELSE <<ResultEnvelope(id, [content |-> ContentDicts(outcome.value)]),
           ErrorEnvelope(id, SERVER_ERROR, <<"<exception>">>)>>

\* The inner try of the tools/call branch, from the return of call_tool on
ToolCallLines(id, outcome) ==
    IF outcome.raised
    THEN <<ErrorEnvelope(id, SERVER_ERROR, outcome.text)>>
    ELSE <<ResultEnvelope(id, [content |-> ContentDicts(outcome.value)])>>

Finished(lines, calls, printed) ==
    [blocking |-> FALSE, lines |-> lines, calls |-> calls, printed |-> printed]
Blocked(calls, printed) ==
    [blocking |-> TRUE, lines |-> <<>>, calls |-> calls, printed |-> printed]

\* stream_generator(request_body), from its start to its yield or to the
\* blocking call of the weather tool
stream_generator(request_body, api_key) ==
    LET decoded == json_loads(request_body) IN
    IF decoded.raised
    THEN Finished(ParseErrorLines(decoded.text), {}, <<>>)
    ELSE
    LET message == decoded.value IN
    IF ~IsMapping(message)
    THEN Finished(ParseErrorLines(NoGetAttr(message)), {}, <<>>)
    ELSE
    LET method == Get(message, "method")
        id == Get(message, "id")
    IN
    IF method = JStr("initialize")
    THEN Finished(<<ResultEnvelope(id, InitializeResult)>>, {"route"}, <<>>)
    ELSE IF method = JStr("tools/list")
    THEN Finished(<<ResultEnvelope(id, [tools |-> ToolsDict(list_tools)])>>,
                  {"route", "list_tools"}, <<>>)
    ELSE IF method = JStr("tools/call")
    THEN LET params == GetDefault(message, "params", EmptyDict) IN
         IF ~IsMapping(params)
         THEN Finished(ParseErrorLines(NoGetAttr(params)), {"route"}, <<>>)
         ELSE LET tool_name == Get(params, "name")
                  arguments == GetDefault(params, "arguments", EmptyDict)
                  called == call_tool(tool_name, arguments, api_key)
              IN
              IF called.blocking
              THEN Blocked(called.calls \cup {"route"}, called.printed)
              ELSE Finished(ToolCallLines(id, called.outcome),
                            called.calls \cup {"route"}, called.printed)
    ELSE Finished(MethodNotFoundLines(id, method), {"route"}, <<>>)

\* stream_generator from the return of the blocking call to its yield
stream_generator_resume(request_body, net) ==
    LET message == json_loads(request_body).value
        arguments == GetDefault(Get(message, "params"), "arguments", EmptyDict)
    IN
    ToolCallLines(Get(message, "id"),
                  weather_tool_finish(Get(arguments, "location"), net))

----------------------------------------------------------------------------
\* The requests the model sends

Ids == {Absent, JNull, JNum("7")}

PlainMethods == {Absent, JStr("initialize"), JStr("tools/list"), JStr("resources/list")}

TimeArguments ==
    {Absent, JNull, Args(Absent, Absent),
     Args(JStr("Asia/Kolkata"), Absent), Args(JStr("Not/AZone"), Absent)}

WeatherArguments ==
    {Absent, JNull, Args(Absent, Absent), Args(Absent, JStr("Paris"))}

CallParams ==
    {Absent, JNull, JList, Params(Absent, Absent)}
    \cup {Params(JStr("time_tool"), a) : a \in TimeArguments}
    \cup {Params(JStr("weather_tool"), a) : a \in WeatherArguments}
    \cup {Params(JStr("bogus_tool"), a) : a \in {Absent, JNull}}

Bodies ==
    {BadUtf8, BadJson, Json(JList)}
    \cup {Json(Message(i, m, p)) : i \in Ids, m \in PlainMethods, p \in {Absent, JNull}}
    \cup {Json(Message(i, JStr("tools/call"), p)) : i \in Ids, p \in CallParams}

----------------------------------------------------------------------------
\* The state

VARIABLES
    mode,       \* "init", then "http" or "stdio": the branch main() took
    pc,         \* per connection: where its handling task is
    body,       \* per connection: the request body it was given
    out,        \* per connection: the lines its response has streamed
    calls,      \* per connection: what the handling of its request has called
    running,    \* the task that holds the event loop inside a blocking call
    stdout,     \* the lines written to the standard output of the process
    accepted,   \* the number of HTTP requests accepted
    served      \* the number of requests the stdio session has served

vars == <<mode, pc, body, out, calls, running, stdout, accepted, served>>

Init ==
    /\ mode = "init"
    /\ pc = [c \in Conns |-> "idle"]
    /\ body = [c \in Conns |-> NoBody]
    /\ out = [c \in Conns |-> <<>>]
    /\ calls = [c \in Conns |-> {}]
    /\ running = NoTask
    /\ stdout = <<>>
    /\ accepted = 0
    /\ served = 0

\* main() with --http: the banner, then uvicorn serves on one event loop
MainHttp ==
    /\ mode = "init"
    /\ mode' = "http"
    /\ stdout' = stdout \o
         << TextLine(<<"Starting MCP Streamable HTTP server on port ", "8000">>),
            TextLine(<<"Endpoint: http://localhost:", "8000", "/">>),
            TextLine(<<"Health check: http://localhost:", "8000", "/health">>) >>
    /\ UNCHANGED <<pc, body, out, calls, running, accepted, served>>

\* main() without --http: the banner, then the stdio session
MainStdio ==
    /\ mode = "init"
    /\ mode' = "stdio"
    /\ stdout' = Append(stdout, TextLine(<<"Starting MCP stdio server">>))
    /\ UNCHANGED <<pc, body, out, calls, running, accepted, served>>

\* handle_stream for a POST: reads the body and returns the streaming response
\* over stream_generator(body); a failure to read the body gives the 500 line
HandleStream(c) ==
    /\ mode = "http"
    /\ running = NoTask
    /\ pc[c] = "idle"
    /\ accepted < MaxRequests
    /\ accepted' = accepted + 1
    /\ \/ \E b \in Bodies :
            /\ body' = [body EXCEPT ![c] = b]
            /\ pc' = [pc EXCEPT ![c] = "received"]
            /\ out' = [out EXCEPT ![c] = <<>>]
       \/ /\ body' = [body EXCEPT ![c] = NoBody]
          /\ pc' = [pc EXCEPT ![c] = "done"]
          /\ out' = [out EXCEPT ![c] =
                       <<ErrorEnvelope(JNull, SERVER_ERROR, <<"<body read failed>">>)>>]
    /\ calls' = [calls EXCEPT ![c] = {}]
    /\ UNCHANGED <<mode, running, stdout, served>>

\* The event loop runs stream_generator to its yield, or into requests.get,
\* which blocks the thread of the event loop until it returns
Generate(c) ==
    /\ mode = "http"
    /\ running = NoTask
    /\ pc[c] = "received"
    /\ \E api_key \in ApiKeys :
         LET g == stream_generator(body[c], api_key) IN
         /\ calls' = [calls EXCEPT ![c] = g.calls]
         /\ stdout' = stdout \o g.printed
         /\ out' = [out EXCEPT ![c] = @ \o g.lines]
         /\ pc' = [pc EXCEPT ![c] = IF g.blocking THEN "inNet" ELSE "yielded"]
         /\ running' = IF g.blocking THEN c ELSE NoTask
    /\ UNCHANGED <<mode, body, accepted, served>>

\* requests.get returns (or raises, at the latest after its timeout) and the
\* generator runs on to its yield
NetReturn(c) ==
    /\ mode = "http"
    /\ running = c
    /\ pc[c] = "inNet"
    /\ \E net \in NetOutcomes :
         out' = [out EXCEPT ![c] = @ \o stream_generator_resume(body[c], net)]
    /\ pc' = [pc EXCEPT ![c] = "yielded"]
    /\ running' = NoTask
    /\ UNCHANGED <<mode, body, calls, stdout, accepted, served>>

\* The generator is resumed after its yield and ends: the response is complete
Finish(c) ==
    /\ mode = "http"
    /\ running = NoTask
    /\ pc[c] = "yielded"
    /\ pc' = [pc EXCEPT ![c] = "done"]
    /\ UNCHANGED <<mode, body, out, calls, running, stdout, accepted, served>>

\* The connection is closed; the task slot is free for another request
Close(c) ==
    /\ mode = "http"
    /\ running = NoTask
    /\ pc[c] = "done"
    /\ pc' = [pc EXCEPT ![c] = "idle"]
    /\ body' = [body EXCEPT ![c] = NoBody]
    /\ out' = [out EXCEPT ![c] = <<>>]
    /\ calls' = [calls EXCEPT ![c] = {}]
    /\ UNCHANGED <<mode, running, stdout, accepted, served>>

\* What the session of the SDK writes for a tool call: one envelope
SessionResponse(id, outcome) ==
    IF outcome.raised
    THEN ResultEnvelope(id, [content |-> <<[type |-> "text", text |-> outcome.text]>>,
                             isError |-> TRUE])
    ELSE ResultEnvelope(id, [content |-> ContentDicts(outcome.value), isError |-> FALSE])

\* server.run over stdio: a tools/call request line is read, the registered
\* call_tool runs to its end, and the session writes the response line
StdioCallTool ==
    /\ mode = "stdio"
    /\ served < MaxStdioCalls
    /\ served' = served + 1
    /\ \E p \in CallParams, api_key \in ApiKeys, net \in NetOutcomes :
         /\ IsMapping(p)
         /\ LET arguments == GetDefault(p, "arguments", EmptyDict)
                called == call_tool(Get(p, "name"), arguments, api_key)
                outcome == IF called.blocking
                           THEN weather_tool_finish(Get(arguments, "location"), net)
                           ELSE called.outcome
            IN stdout' = (stdout \o called.printed) \o <<SessionResponse(JNum("7"), outcome)>>
    /\ UNCHANGED <<mode, pc, body, out, calls, running, accepted>>

Next ==
    \/ MainHttp
    \/ MainStdio
    \/ \E c \in Conns : HandleStream(c)
    \/ \E c \in Conns : Generate(c)
    \/ \E c \in Conns : NetReturn(c)
    \/ \E c \in Conns : Finish(c)
    \/ \E c \in Conns : Close(c)
    \/ StdioCallTool

Spec == Init /\ [][Next]_vars

----------------------------------------------------------------------------
\* Properties

\* The connection has streamed its response (the generator is at or past its yield)
Answered(c) == pc[c] \in {"yielded", "done"}
\* The body decoded, and to a JSON object
Decoded(c) == body[c].kind = "json"
IsObject(c) == Decoded(c) /\ IsMapping(body[c].msg)
IsToolsCall(c) == IsObject(c) /\ body[c].msg.method = JStr("tools/call")
NamesTool(c) == IsToolsCall(c) /\ IsMapping(body[c].msg.params)
                  /\ body[c].msg.params.name.t = "str"
Contains(text, piece) == \E i \in 1..Len(text) : text[i] = piece
Handlers == {"time_tool", "weather_tool", "requests.get"}

\* C1: every body that decodes to a JSON object with a non-null id, whatever its
\* method and its params, gets exactly one envelope, and that envelope's id is
\* the request's id.
C1_IdEchoed ==
    \A c \in Conns :
        (Answered(c) /\ IsObject(c) /\ body[c].msg.id \notin {Absent, JNull})
        => /\ Len(out[c]) = 1
           /\ IsEnvelope(out[c][1])
           /\ out[c][1].id = body[c].msg.id

C2_LinesSoFar ==
    \A c \in Conns :
        /\ pc[c] \in {"idle", "received", "inNet"} => out[c] = <<>>
        /\ Answered(c) => (Len(out[c]) = 1 /\ IsEnvelope(out[c][1]))
C2_NotStuck ==
    /\ running \in Conns => pc[running] = "inNet"
    /\ \A c \in Conns :
        /\ pc[c] = "inNet" => ENABLED NetReturn(c)
        /\ (pc[c] = "yielded" /\ running = NoTask) => ENABLED Finish(c)
C2_Forward ==
    \A c \in Conns :
        /\ pc[c] = "received" => pc'[c] \in {"received", "inNet", "yielded"}
        /\ pc[c] = "inNet" => pc'[c] \in {"inNet", "yielded"}
        /\ pc[c] = "yielded" => (pc'[c] \in {"yielded", "done"} /\ out'[c] = out[c])
\* C2: every exchange emits exactly one response line and then ends: no line
\* before the generator has run, exactly one line at its yield and after it;
\* the event loop is only ever held by a task inside the outbound call, whose
\* return is always possible; an exchange only moves forward, and from the
\* yield on its only step is its end, which is always possible and adds no line.
C2_ExactlyOneLine == [] (C2_LinesSoFar /\ C2_NotStuck) /\ [][C2_Forward]_vars
C2_Witness ==
    \E c \in Conns :
        /\ pc[c] = "done"
        /\ IsToolsCall(c)
        /\ "requests.get" \in calls[c]
        /\ Len(out[c]) = 1

C4_ParseError ==
    \A c \in Conns :
        (Answered(c) /\ body[c].kind \in {"badutf8", "badjson"})
        => /\ Len(out[c]) = 1
           /\ IsError(out[c][1])
           /\ out[c][1].id = JNull
           /\ out[c][1].error.code = -32700
           /\ out[c][1].error.message[1] = "Parse error: "
           /\ calls[c] = {}
C4_Witness ==
    \E c \in Conns :
        /\ Answered(c)
        /\ body[c] = BadJson
        /\ out[c][1].error.code = -32700

\* C5: a tools/call naming a tool T that is not registered is answered by an
\* Error with the request's id, code -32000 and a message containing T, and no
\* tool handler was invoked for it.
C5_UnknownTool ==
    \A c \in Conns :
        (Answered(c) /\ NamesTool(c) /\ body[c].msg.params.name.v \notin ToolNames)
        => /\ Len(out[c]) = 1
           /\ IsError(out[c][1])
           /\ out[c][1].id = Get(body[c].msg, "id")
           /\ out[c][1].error.code = -32000
           /\ out[c][1].error.message[1] = "Unknown tool: "
           /\ Contains(out[c][1].error.message, body[c].msg.params.name.v)
           /\ calls[c] \cap Handlers = {}
C5_Witness ==
    \E c \in Conns :
        /\ Answered(c)
        /\ NamesTool(c)
        /\ body[c].msg.id = JNum("7")
        /\ body[c].msg.params = Params(JStr("bogus_tool"), JNull)
        /\ IsError(out[c][1])

\* C6: a decoded request whose method is none of initialize, tools/list and
\* tools/call is answered by an Error with the request's id, code -32601 and a
\* message containing the method, and neither list_tools nor a tool was called.
C6_MethodNotFound ==
    \A c \in Conns :
        (/\ Answered(c)
         /\ IsObject(c)
         /\ body[c].msg.method \notin
              {JStr("initialize"), JStr("tools/list"), JStr("tools/call")})
        => /\ Len(out[c]) = 1
           /\ IsError(out[c][1])
           /\ out[c][1].id = Get(body[c].msg, "id")
           /\ out[c][1].error.code = -32601
           /\ Contains(out[c][1].error.message, PyStr(body[c].msg.method))
           /\ calls[c] \subseteq {"route"}
C6_Witness ==
    \E c \in Conns :
        /\ Answered(c)
        /\ IsObject(c)
        /\ body[c].msg.method = JStr("resources/list")
        /\ body[c].msg.id = JNum("7")
        /\ IsError(out[c][1])

\* C7: while one handling task is inside the outbound call of the weather
\* lookup, a second request that has been received can still be run by the
\* event loop (decoded, routed and answered) before that call returns.
C7_SecondRequestProceeds ==
    \A a, b \in Conns :
        (a # b /\ pc[a] = "inNet" /\ pc[b] = "received") => ENABLED Generate(b)

\* C8: in stdio mode every line on the standard output is a response envelope:
\* no banner and no debug output of a tool is ever written there.
C8_StdoutOnlyEnvelopes ==
    mode = "stdio" => \A i \in 1..Len(stdout) : IsEnvelope(stdout[i])

\* C9: after any sequence and interleaving of requests, a tools/list request
\* is answered by a Result whose tools are exactly the descriptors of
\* time_tool and then weather_tool, each as {name, description, inputSchema}.
C9_ToolsListed ==
    \A c \in Conns :
        (Answered(c) /\ IsObject(c) /\ body[c].msg.method = JStr("tools/list"))
        => /\ Len(out[c]) = 1
           /\ IsResult(out[c][1])
           /\ out[c][1].id = Get(body[c].msg, "id")
           /\ out[c][1].result =
                [tools |->
                  << [name |-> "time_tool",
                      description |-> "Get current time for a timezone (e.g. Asia/Kolkata)",
                      inputSchema |-> [type |-> "object",
                                       properties |-> {"input_timezone"},
                                       required |-> {},
                                       additionalProperties |-> FALSE]],
                     [name |-> "weather_tool",
                      description |-> "Provides weather info for a given location",
                      inputSchema |-> [type |-> "object",
                                       properties |-> {"location"},
                                       required |-> {"location"},
                                       additionalProperties |-> FALSE]] >>]
C9_Witness ==
    \E c, d \in Conns :
        /\ c # d
        /\ Answered(c)
        /\ IsObject(c)
        /\ body[c].msg.method = JStr("tools/list")
        /\ Answered(d)
        /\ IsToolsCall(d)
        /\ "requests.get" \in calls[d]
        /\ accepted = MaxRequests

\* C10: a body that decodes but whose handling then raises (the decoded value
\* is no mapping, or the params of a tools/call are null or no mapping) is
\* answered by one Error envelope with the generic code -32000.
C10_GenericCode ==
    \A c \in Conns :
        (/\ Answered(c)
         /\ Decoded(c)
         /\ \/ ~IsMapping(body[c].msg)
            \/ /\ IsToolsCall(c)
               /\ body[c].msg.params # Absent
               /\ ~IsMapping(body[c].msg.params))
        => /\ Len(out[c]) = 1
           /\ IsError(out[c][1])
           /\ out[c][1].error.code = -32000

====
